---- MODULE Spec2Model ----
(***************************************************************************)
(* Folder scan / metadata synchronisation engine and its catalog store.    *)
(*                                                                         *)
(* Text is a sequence of one-character strings, so that LIKE matching,     *)
(* lower(), basename and splitext are computed character by character.     *)
(* A column holding SQL NULL holds Null.  A timestamp is <<"datetime", n>> *)
(* while it is a Python datetime and <<"str", n>> once sqlite3 has adapted *)
(* it to ISO text (the store is opened without detect_types, so it is read *)
(* back as text).                                                          *)
(***************************************************************************)
EXTENDS Integers, Sequences, FiniteSets, TLC

----------------------------------------------------------------------------
(* Bounds of the model *)

MaxTime == 2
MaxOps == 2
MaxScans == 2

----------------------------------------------------------------------------
(* Text primitives *)

Null == <<"NULL">>

UpperLetters ==
  <<"A","B","C","D","E","F","G","H","I","J","K","L","M",
    "N","O","P","Q","R","S","T","U","V","W","X","Y","Z">>

LowerLetters ==
  <<"a","b","c","d","e","f","g","h","i","j","k","l","m",
    "n","o","p","q","r","s","t","u","v","w","x","y","z">>

\* str.lower() / SQL lower() on one character (ASCII folding)
LowerChar(c) ==
  IF \E i \in 1..26 : UpperLetters[i] = c
    THEN LowerLetters[CHOOSE i \in 1..26 : UpperLetters[i] = c]
    ELSE c

Lower(s) == [i \in 1..Len(s) |-> LowerChar(s[i])]

\* SQL LIKE on text t with pattern p: % matches any run, _ any one character,
\* other characters match case-insensitively
RECURSIVE Like(_, _)
Like(t, p) ==
  IF p = <<>> THEN t = <<>>
  ELSE IF Head(p) = "%"
    THEN Like(t, Tail(p)) \/ (t # <<>> /\ Like(Tail(t), p))
    ELSE /\ t # <<>>
         /\ (Head(p) = "_" \/ LowerChar(Head(p)) = LowerChar(Head(t)))
         /\ Like(Tail(t), Tail(p))

\* Python truthiness of a text value (None and '' are falsy)
Truthy(v) == v # Null /\ v # <<>>

\* plain (case-sensitive, wildcard-free) substring and prefix tests
IsPrefix(p, s) == Len(p) <= Len(s) /\ SubSeq(s, 1, Len(p)) = p

Contains(s, x) ==
  \E i \in 0..(Len(s) - Len(x)) : SubSeq(s, i + 1, i + Len(x)) = x

ContainsNoCase(s, x) == Contains(Lower(s), Lower(x))

\* the element of a singleton: binds a computed value once
The(S) == CHOOSE x \in S : TRUE

----------------------------------------------------------------------------
(* os.path *)

Positions(s, c) == {i \in 1..Len(s) : s[i] = c}

MaxOf(S) == CHOOSE x \in S : \A y \in S : y <= x

MinOf(S) == CHOOSE x \in S : \A y \in S : x <= y

\* a set of integers as the ascending sequence of its elements
RECURSIVE SetToSeqBy(_)
SetToSeqBy(S) ==
  IF S = {} THEN <<>> ELSE <<MinOf(S)>> \o SetToSeqBy(S \ {MinOf(S)})

\* os.path.join(root, name) for a relative name
os_path_join(root, name) ==
  IF root = <<>> \/ root[Len(root)] = "/" THEN root \o name
  ELSE root \o <<"/">> \o name

\* os.path.basename
os_path_basename(p) ==
  IF Positions(p, "/") = {} THEN p
  ELSE SubSeq(p, MaxOf(Positions(p, "/")) + 1, Len(p))

\* os.path.splitext(name)[1]: from the last dot, unless only dots precede it
os_path_splitext_ext(name) ==
  IF Positions(name, ".") = {} THEN <<>>
  ELSE LET d == MaxOf(Positions(name, ".")) IN
       IF \A i \in 1..(d - 1) : name[i] = "." THEN <<>>
       ELSE SubSeq(name, d, Len(name))

\* Path(p).drive: a drive designator such as C: when the path carries one
path_drive(p) ==
  IF Len(p) >= 2 /\ p[2] = ":" THEN SubSeq(p, 1, 2) ELSE <<>>

----------------------------------------------------------------------------
(* config.py *)

FILE_TYPES ==
  { << <<".","p","d","f">>,     <<"P","D","F">> >>,
    << <<".","d","w","g">>,     <<"D","W","G">> >>,
    << <<".","d","o","c">>,     <<"D","O","C">> >>,
    << <<".","d","o","c","x">>, <<"D","O","C">> >>,
    << <<".","x","l","s">>,     <<"X","L","S">> >>,
    << <<".","x","l","s","x">>, <<"X","L","S">> >>,
    << <<".","t","x","t">>,     <<"T","X","T">> >>,
    << <<".","c","s","v">>,     <<"C","S","V">> >>,
    << <<".","z","i","p">>,     <<"Z","I","P">> >>,
    << <<".","r","a","r">>,     <<"R","A","R">> >> }

TYPE_OTHER == <<"O","T","H","E","R">>

\* FILE_TYPES.get(extension, 'OTHER')
FileTypesGet(ext) ==
  IF \E e \in FILE_TYPES : e[1] = ext
    THEN (CHOOSE e \in FILE_TYPES : e[1] = ext)[2]
    ELSE TYPE_OTHER

----------------------------------------------------------------------------
(* Python and SQLite values *)

\* a Python int as a value bound to a statement parameter
PyInt(n) == <<"int", n>>

IsPyInt(v) == Len(v) = 2 /\ v[1] = "int"

\* datetime.fromtimestamp(t): a Python datetime
datetime_fromtimestamp(t) == <<"datetime", t>>

IsDatetime(v) == Len(v) = 2 /\ v[1] = "datetime"

\* the ISO text sqlite3 stores for a datetime, and reads back as str
IsoText(t) == <<"str", t>>

IsIsoText(v) == Len(v) = 2 /\ v[1] = "str"

\* sqlite3 parameter binding: a datetime is adapted to its ISO text,
\* text and None are bound as they are
Adapt(v) == IF IsDatetime(v) THEN IsoText(v[2]) ELSE v

\* Python's  a > b : defined between two datetimes, TypeError otherwise
\* (a datetime against the str or None read back from the store)
PyGreater(a, b) ==
  IF IsDatetime(a) /\ IsDatetime(b)
    THEN [raised |-> FALSE, value |-> a[2] > b[2]]
    ELSE [raised |-> TRUE, value |-> FALSE]

Digits == <<"0","1","2","3","4","5","6","7","8","9">>

IsIntegerText(v) ==
  /\ v # <<>>
  /\ \A i \in 1..Len(v) : \E d \in 1..10 : Digits[d] = v[i]

RECURSIVE TextToInt(_)
TextToInt(v) ==
  IF v = <<>> THEN 0
  ELSE 10 * TextToInt(SubSeq(v, 1, Len(v) - 1))
       + ((CHOOSE d \in 1..10 : Digits[d] = v[Len(v)]) - 1)

\* WHERE file_id = ?  on the INTEGER PRIMARY KEY: an int parameter compares
\* by value, a text parameter only if it is the text of an integer
SqlRowidEquals(rowid, v) ==
  IF IsPyInt(v) THEN rowid = v[2]
  ELSE IsIntegerText(v) /\ rowid = TextToInt(v)

----------------------------------------------------------------------------
(* files_metadata: db_manager.py *)

TagFields ==
  {"issue_status", "revision", "department", "drawing_type",
   "plant_area", "equipment_included", "notes", "todos"}

IntrinsicFields ==
  {"file_name", "source", "file_type", "last_modified", "created_date"}

DateFields == {"last_modified", "created_date"}

Columns == {"file_id", "file_path"} \cup IntrinsicFields \cup TagFields

NotNullColumns == {"file_path", "file_name"}

\* AUTOINCREMENT: one more than the largest file_id (rows are never deleted,
\* so this is also one more than the largest file_id ever used)
NextFileId(tbl) ==
  IF tbl = <<>> THEN 1
  ELSE 1 + MaxOf({tbl[i].file_id : i \in 1..Len(tbl)})

\* the row INSERT builds from the supplied columns; ts is CURRENT_TIMESTAMP
NewRow(tbl, metadata, ts) ==
  [c \in Columns |->
     IF c \in DOMAIN metadata THEN Adapt(metadata[c])
     ELSE IF c = "file_id" THEN NextFileId(tbl)
     ELSE IF c = "created_date" THEN IsoText(ts)
     ELSE Null]

\* add_file_metadata with the INSERT executed twice
add_file_metadata_Twice(tbl, metadata, ts) ==
  LET first == Append(tbl, NewRow(tbl, metadata, ts)) IN
  [tbl |-> Append(first, NewRow(first, metadata, ts)),
   ret |-> NewRow(first, metadata, ts).file_id]

\* add_file_metadata: [tbl, ret] with ret the new file_id, or 0 for None
add_file_metadata(tbl, metadata, ts) ==
  IF \/ ~(DOMAIN metadata \subseteq Columns)
     \/ DOMAIN metadata = {}
     \/ \E c \in NotNullColumns : NewRow(tbl, metadata, ts)[c] = Null
    THEN [tbl |-> tbl, ret |-> 0]
    ELSE [tbl |-> Append(tbl, NewRow(tbl, metadata, ts)),
          ret |-> NewRow(tbl, metadata, ts).file_id]

\* an UPDATE that clears the tag fields it is not given
SetColumns_Reset(row, metadata) ==
  [c \in Columns |-> IF c \in DOMAIN metadata THEN Adapt(metadata[c])
                     ELSE IF c \in TagFields THEN Null
                     ELSE row[c]]

\* UPDATE ... SET k = ? for the supplied keys
SetColumns(row, metadata) ==
  [c \in Columns |-> IF c \in DOMAIN metadata THEN Adapt(metadata[c])
                     ELSE row[c]]

\* update_file_metadata: [tbl, ret]; True whenever the statement ran
update_file_metadata(tbl, file_id, metadata) ==
  IF ~(DOMAIN metadata \subseteq Columns) \/ DOMAIN metadata = {}
    THEN [tbl |-> tbl, ret |-> FALSE]
    ELSE [tbl |-> [i \in 1..Len(tbl) |->
                     IF SqlRowidEquals(tbl[i].file_id, file_id)
                       THEN SetColumns(tbl[i], metadata) ELSE tbl[i]],
          ret |-> TRUE]

\* update_file_metadata_by_path: [tbl, ret]; True iff rowcount > 0
update_file_metadata_by_path(tbl, file_path, metadata) ==
  IF ~(DOMAIN metadata \subseteq Columns) \/ DOMAIN metadata = {}
    THEN [tbl |-> tbl, ret |-> FALSE]
    ELSE [tbl |-> [i \in 1..Len(tbl) |->
                     IF tbl[i].file_path = file_path
                       THEN SetColumns(tbl[i], metadata) ELSE tbl[i]],
          ret |-> \E i \in 1..Len(tbl) : tbl[i].file_path = file_path]

----------------------------------------------------------------------------
(* search_files: db_manager.py *)

TicksPerDay == 2

NullDay == 0 - 1

\* the text 'YYYY-MM-DD' of day d
DateText(d) == <<"date", d>>

IsDateText(v) == Len(v) = 2 /\ v[1] = "date"

\* the unfilled date prompt of the search screen
PLACEHOLDER == <<"Y","Y","Y","Y","-","M","M","-","D","D">>

\* SQL date(x): the calendar day of a timestamp or date text, NULL otherwise
SqlDate(v) ==
  IF IsIsoText(v) THEN v[2] \div TicksPerDay
  ELSE IF IsDateText(v) THEN v[2]
  ELSE NullDay

\* one WHERE clause of search_files with the placeholder handed to date()
CriterionHolds_NoPlaceholder(row, key, value) ==
  IF ~Truthy(value) THEN TRUE
  ELSE IF key \in DateFields
    THEN SqlDate(row[key]) # NullDay /\ SqlDate(row[key]) = SqlDate(value)
    ELSE /\ row[key] # Null
         /\ Like(Lower(row[key]), Lower(<<"%">> \o value \o <<"%">>))

\* one WHERE clause of search_files, or TRUE when the criterion is skipped
CriterionHolds(row, key, value) ==
  IF ~Truthy(value) THEN TRUE
  ELSE IF key \in DateFields
    THEN IF value = PLACEHOLDER THEN TRUE
         ELSE SqlDate(row[key]) # NullDay /\ SqlDate(row[key]) = SqlDate(value)
    ELSE /\ row[key] # Null
         /\ Like(Lower(row[key]), Lower(<<"%">> \o value \o <<"%">>))

\* the WHERE clauses joined by OR
RowMatches_Any(row, criteria) ==
  \E key \in DOMAIN criteria : CriterionHolds(row, key, criteria[key])

\* the WHERE clauses joined by AND
RowMatches(row, criteria) ==
  \A key \in DOMAIN criteria : CriterionHolds(row, key, criteria[key])

\* ORDER BY last_modified DESC: NULL sorts last, ties keep rowid order
SortKey(row) ==
  IF IsIsoText(row.last_modified) THEN row.last_modified[2] ELSE NullDay

\* the matching rows in rowid order, the ORDER BY left out
OrderByRowid(tbl, S) ==
  LET SortedIds == SetToSeqBy(S) IN [i \in 1..Len(SortedIds) |-> tbl[SortedIds[i]]]

RECURSIVE OrderByLastModifiedDesc(_, _)
OrderByLastModifiedDesc(tbl, S) ==
  IF S = {} THEN <<>>
  ELSE LET i == CHOOSE i \in S : \A j \in S :
                  \/ SortKey(tbl[i]) > SortKey(tbl[j])
                  \/ (SortKey(tbl[i]) = SortKey(tbl[j]) /\ i <= j)
       IN <<tbl[i]>> \o OrderByLastModifiedDesc(tbl, S \ {i})

\* search_files: the matching rows, ordered
search_files(tbl, criteria) ==
  OrderByLastModifiedDesc(tbl,
    {i \in 1..Len(tbl) : RowMatches(tbl[i], criteria)})

----------------------------------------------------------------------------
(* file_scanner.py *)

\* os.stat of a path that is not there
Absent == [mtime |-> 0, ctime |-> 0]

\* _extract_metadata, from the path and its os.stat result
extract_metadata(file_path, st) ==
  [file_path     |-> file_path,
   file_name     |-> os_path_basename(file_path),
   source        |-> IF path_drive(file_path) # <<>> THEN path_drive(file_path)
                     ELSE <<"l","o","c","a","l">>,
   file_type     |-> FileTypesGet(Lower(os_path_splitext_ext(
                                          os_path_basename(file_path)))),
   last_modified |-> datetime_fromtimestamp(st.mtime),
   created_date  |-> datetime_fromtimestamp(st.ctime)]

\* _get_existing_files returning {} whatever the catalog holds
get_existing_files_Empty(tbl, folder_path) == [p \in {} |-> <<>>]

\* _get_existing_files leaving out the rows of the sub-directories
get_existing_files_Shallow(tbl, folder_path) ==
  [p \in {tbl[i].file_path : i \in {j \in 1..Len(tbl) :
             tbl[j].file_path
               = os_path_join(folder_path,
                              os_path_basename(tbl[j].file_path))}} |->
     IsoText(1)]

\* _get_existing_files: path -> last_modified of the rows matching folder_path
\* (a later result overwrites an earlier one with the same path)
get_existing_files(tbl, folder_path) ==
  LET last(results, p) ==
        MaxOf({i \in 1..Len(results) : results[i].file_path = p})
      map(results) ==
        [p \in {results[i].file_path : i \in 1..Len(results)} |->
           results[last(results, p)].last_modified]
  IN The({map(results) :
            results \in {search_files(tbl, [file_path |-> folder_path])}})

\* _handle_removed_files deleting the rows of the removed paths
handle_removed_files_Delete(tbl, removed_files) ==
  [tbl |-> SelectSeq(tbl, LAMBDA r : r.file_path \notin removed_files),
   logged |-> removed_files]

\* _handle_removed_files: logs each path, leaves the table alone
handle_removed_files(tbl, removed_files) ==
  [tbl |-> tbl, logged |-> removed_files]

\* the walk loop body rewriting the whole row of a tracked path from the
\* extracted metadata
scan_one_Replace(tbl, existing_files, file_path, st, ts) ==
  IF st = Absent
    THEN [tbl |-> tbl, call |-> "none", processed |-> FALSE, raised |-> TRUE,
          extracted |-> FALSE, metadata |-> extract_metadata(file_path, st)]
  ELSE
    LET metadata == extract_metadata(file_path, st) IN
    IF file_path \in DOMAIN existing_files
      THEN [tbl |-> [i \in 1..Len(tbl) |->
                       IF tbl[i].file_path = file_path
                         THEN [NewRow(tbl, metadata, ts) EXCEPT
                                 !.file_id = tbl[i].file_id]
                         ELSE tbl[i]],
            call |-> "update", processed |-> TRUE, raised |-> FALSE,
            extracted |-> TRUE, metadata |-> metadata]
      ELSE [tbl |-> add_file_metadata(tbl, metadata, ts).tbl,
            call |-> "add", processed |-> TRUE, raised |-> FALSE,
            extracted |-> TRUE, metadata |-> metadata]

\* the body of the walk loop for one discovered path:
\*   call       the store call issued ("add", "update" or "none")
\*   processed  whether processed_files.add(file_path) was reached
\*   raised     whether the except branch was taken
\*   metadata   the extracted metadata (when extraction succeeded)
scan_one(tbl, existing_files, file_path, st, ts) ==
  IF st = Absent
    THEN [tbl |-> tbl, call |-> "none", processed |-> FALSE, raised |-> TRUE,
          extracted |-> FALSE, metadata |-> extract_metadata(file_path, st)]
  ELSE
    LET metadata == extract_metadata(file_path, st) IN
    IF file_path \in DOMAIN existing_files
      THEN LET cmp == PyGreater(metadata.last_modified,
                                existing_files[file_path]) IN
           IF cmp.raised
             THEN [tbl |-> tbl, call |-> "none", processed |-> FALSE,
                   raised |-> TRUE, extracted |-> TRUE, metadata |-> metadata]
           ELSE IF cmp.value
             THEN [tbl |-> update_file_metadata(tbl, file_path, metadata).tbl,
                   call |-> "update", processed |-> TRUE, raised |-> FALSE,
                   extracted |-> TRUE, metadata |-> metadata]
           ELSE [tbl |-> tbl, call |-> "none", processed |-> TRUE,
                 raised |-> FALSE, extracted |-> TRUE, metadata |-> metadata]
      ELSE [tbl |-> add_file_metadata(tbl, metadata, ts).tbl,
            call |-> "add", processed |-> TRUE, raised |-> FALSE,
            extracted |-> TRUE, metadata |-> metadata]

\* get_scan_summary
get_scan_summary(tbl, folder_path) ==
  LET idx(results) == 1..Len(results)
      tagged(results) ==
        Cardinality({i \in idx(results) : Truthy(results[i].department)
                                          /\ Truthy(results[i].revision)})
      summary(results) ==
        [total_files    |-> Len(results),
         type_counts    |-> [t \in {results[i].file_type : i \in idx(results)}
                               |-> Cardinality({i \in idx(results) :
                                                  results[i].file_type = t})],
         tagged_files   |-> tagged(results),
         untagged_files |-> Len(results) - tagged(results)]
  IN The({summary(results) :
            results \in {search_files(tbl, [file_path |-> folder_path])}})

----------------------------------------------------------------------------
(* recent_folders: db_manager.py *)

RECENT_LIMIT == 5

\* a plain INSERT, with no regard for a row the path already has
recent_upsert_Insert(rf, path, ts) ==
  rf \cup {[folder_path |-> path, last_accessed |-> ts]}

\* INSERT ... ON CONFLICT(folder_path) DO UPDATE SET last_accessed: the row of
\* the path now carries CURRENT_TIMESTAMP
recent_upsert(rf, path, ts) ==
  {r \in rf : r.folder_path # path}
    \cup {[folder_path |-> path, last_accessed |-> ts]}

\* the trim left out
recent_trim_None(rf) == {rf}

\* DELETE ... WHERE folder_path NOT IN (... ORDER BY last_accessed DESC LIMIT 5):
\* which of several rows with equal last_accessed the LIMIT keeps is up to the
\* store, so every admissible outcome is returned
recent_trim(rf) ==
  LET size == IF Cardinality(rf) > RECENT_LIMIT THEN RECENT_LIMIT
              ELSE Cardinality(rf)
  IN {K \in SUBSET rf :
        /\ Cardinality(K) = size
        /\ \A k \in K : \A r \in rf \ K :
             k.last_accessed >= r.last_accessed}

\* add_recent_folder: upsert with CURRENT_TIMESTAMP, then keep the 5 most
\* recent; the set of the tables it may leave
add_recent_folder(rf, path, ts) == recent_trim(recent_upsert(rf, path, ts))

\* remove_recent_folder
remove_recent_folder(rf, path) == {r \in rf : r.folder_path # path}

\* the rows of rf in every order ORDER BY last_accessed DESC LIMIT n allows
RECURSIVE OrderByLastAccessedDesc(_, _)
OrderByLastAccessedDesc(rf, n) ==
  IF n = 0 \/ rf = {} THEN {<<>>}
  ELSE UNION {{<<r>> \o q : q \in OrderByLastAccessedDesc(rf \ {r}, n - 1)} :
          r \in {m \in rf : \A o \in rf : m.last_accessed >= o.last_accessed}}

\* get_recent_folders with ORDER BY last_accessed ASC
RECURSIVE get_recent_folders_Ascending(_, _)
get_recent_folders_Ascending(rf, limit) ==
  IF limit = 0 \/ rf = {} THEN {<<>>}
  ELSE UNION {{<<r>> \o q : q \in get_recent_folders_Ascending(rf \ {r}, limit - 1)} :
          r \in {m \in rf : \A o \in rf : m.last_accessed <= o.last_accessed}}

\* get_recent_folders: the lists it may return (a negative LIMIT is no limit)
get_recent_folders(rf, limit) ==
  OrderByLastAccessedDesc(rf, IF limit < 0 THEN Cardinality(rf) ELSE limit)

----------------------------------------------------------------------------
(* The filesystem the scanner walks *)

DirD == <<"d">>
DirS == <<"d","/","s">>

AllDirs == {DirD, DirS}

\* the directories directly inside a directory
SubDirs(d) == IF d = DirD THEN {DirS} ELSE {}

FileA == [dir |-> DirD, name |-> <<"a",".","P","D","F">>]
FileB == [dir |-> DirS, name |-> <<"b">>]

AllFiles == {FileA, FileB}

FilePath(f) == os_path_join(f.dir, f.name)

AllPaths == {FilePath(f) : f \in AllFiles}

\* roots handed to scan_folder
Folders == AllDirs

Stats == [mtime : 1..MaxTime, ctime : 1..MaxTime]

\* os.path.exists answering True for every path
os_path_exists_Always(ds, dk, path) == TRUE

\* os.path.exists
os_path_exists(ds, dk, path) ==
  \/ path \in ds
  \/ \E f \in AllFiles : FilePath(f) = path /\ dk[f] # Absent

\* os.stat: Absent stands for the raised OSError
os_stat(dk, path) ==
  IF \E f \in AllFiles : FilePath(f) = path
    THEN dk[CHOOSE f \in AllFiles : FilePath(f) = path]
    ELSE Absent

\* os.walk listing, with every directory, the files of its sub-directories too
os_walk_files_Recursive(ds, dk, d) ==
  IF d \in ds
    THEN {FilePath(f) : f \in {g \in AllFiles :
                                 /\ g.dir = d \/ IsPrefix(d \o <<"/">>, g.dir)
                                 /\ dk[g] # Absent}}
    ELSE {}

\* os.walk, one directory: the joined paths of the files listed in it
os_walk_files(ds, dk, d) ==
  IF d \in ds
    THEN {os_path_join(d, f.name) : f \in {g \in AllFiles : g.dir = d /\ dk[g] # Absent}}
    ELSE {}

\* os.walk, one directory: the sub-directories it descends into next
os_walk_dirs(ds, d) == IF d \in ds THEN SubDirs(d) \cap ds ELSE {}

RECURSIVE SetToSeq(_)
SetToSeq(S) ==
  IF S = {} THEN <<>>
  ELSE LET x == CHOOSE x \in S : TRUE IN <<x>> \o SetToSeq(S \ {x})

DiskConsistent(ds, dk) ==
  /\ \A d \in ds : \A e \in AllDirs : d \in SubDirs(e) => e \in ds
  /\ \A f \in AllFiles : dk[f] # Absent => f.dir \in ds

----------------------------------------------------------------------------
(* scan_folder: file_scanner.py *)

EmptyMap == [p \in {} |-> <<>>]

\* the set difference with its operands swapped
removed_files_of_Swapped(existing, processed) == processed \ DOMAIN existing

\* removed_files = set(existing_files.keys()) - processed_files
removed_files_of(existing, processed) == DOMAIN existing \ processed

RECURSIVE Concat(_)
Concat(ss) == IF ss = <<>> THEN <<>> ELSE Head(ss) \o Concat(Tail(ss))

\* os.walk(top), top-down: the files of a directory, then its sub-directories
RECURSIVE os_walk(_, _, _)
os_walk(ds, dk, top) ==
  LET subs == SetToSeq(os_walk_dirs(ds, top)) IN
  SetToSeq(os_walk_files(ds, dk, top))
    \o Concat([i \in 1..Len(subs) |-> os_walk(ds, dk, subs[i])])

\* what may go wrong during one scan:
\*   unreadable  paths for which os.stat raises (gone since they were listed,
\*               or not permitted)
\*   failing     paths whose store write meets a store failure
\*   unlistable  directories os.walk cannot list, and passes over in silence
\*   abort       NoAbort, or the number of files processed when an exception
\*               escapes the walk
NoAbort == 0 - 1

NoFaults ==
  [unreadable |-> {}, failing |-> {}, unlistable |-> {}, abort |-> NoAbort]

\* the body of the walk loop when the store may fail: a failing store call
\* writes nothing and returns None or False, which the scanner does not look at
scan_one_with(tbl, existing_files, file_path, st, ts, store_fails) ==
  The({ IF store_fails /\ r.call # "none" THEN [r EXCEPT !.tbl = tbl] ELSE r :
          r \in {scan_one(tbl, existing_files, file_path, st, ts)} })

\* the walk loop leaving at the first file that raises
RECURSIVE scan_walk_with_Break(_, _, _, _, _, _)
scan_walk_with_Break(acc, existing_files, paths, dk, faults, ts) ==
  IF paths = <<>> THEN acc
  ELSE
    LET file_path == Head(paths)
        st == IF file_path \in faults.unreadable THEN Absent
              ELSE os_stat(dk, file_path)
        step(r) ==
          [tbl       |-> r.tbl,
           processed |-> IF r.processed THEN acc.processed \cup {file_path}
                         ELSE acc.processed,
           calls     |-> IF r.call = "none" THEN acc.calls
                         ELSE Append(acc.calls, <<r.call, file_path>>),
           seen      |-> IF r.extracted
                           THEN [p \in DOMAIN acc.seen \cup {file_path} |->
                                   IF p = file_path THEN r.metadata
                                   ELSE acc.seen[p]]
                           ELSE acc.seen]
    IN The({IF r.raised THEN step(r)
            ELSE scan_walk_with_Break(step(r), existing_files, Tail(paths),
                                      dk, faults, ts) :
              r \in {scan_one_with(acc.tbl, existing_files, file_path, st, ts,
                                   file_path \in faults.failing)}})

\* the walk loop over the discovered paths
RECURSIVE scan_walk_with(_, _, _, _, _, _)
scan_walk_with(acc, existing_files, paths, dk, faults, ts) ==
  IF paths = <<>> THEN acc
  ELSE
    LET file_path == Head(paths)
        st == IF file_path \in faults.unreadable THEN Absent
              ELSE os_stat(dk, file_path)
        step(r) ==
          [tbl       |-> r.tbl,
           processed |-> IF r.processed THEN acc.processed \cup {file_path}
                         ELSE acc.processed,
           calls     |-> IF r.call = "none" THEN acc.calls
                         ELSE Append(acc.calls, <<r.call, file_path>>),
           seen      |-> IF r.extracted
                           THEN [p \in DOMAIN acc.seen \cup {file_path} |->
                                   IF p = file_path THEN r.metadata
                                   ELSE acc.seen[p]]
                           ELSE acc.seen]
    IN The({scan_walk_with(step(r), existing_files, Tail(paths), dk, faults,
                           ts) :
              r \in {scan_one_with(acc.tbl, existing_files, file_path, st, ts,
                                   file_path \in faults.failing)}})

\* the walk loop when the store does not fail; os.stat raises for the paths
\* in unreadable
scan_walk(acc, existing_files, paths, dk, unreadable, ts) ==
  scan_walk_with(acc, existing_files, paths, dk,
                 [NoFaults EXCEPT !.unreadable = unreadable], ts)

\* the first n elements of a sequence (all of it when n is NoAbort)
Upto(paths, n) ==
  IF n = NoAbort \/ n >= Len(paths) THEN paths ELSE SubSeq(paths, 1, n)

\* an aborted scan that takes back the rows it had added
scan_aborted_Reverted(existing_files, w) ==
  [ret |-> FALSE,
   tbl |-> SubSeq(w.tbl, 1,
                  Len(w.tbl) - Cardinality({i \in 1..Len(w.calls) :
                                              w.calls[i][1] = "add"})),
   existing_files |-> existing_files, processed_files |-> w.processed,
   calls |-> w.calls, seen |-> w.seen, logged |-> {}]

\* except Exception: log, return False; w is the walk up to the exception
scan_aborted(existing_files, w) ==
  [ret |-> FALSE, tbl |-> w.tbl, existing_files |-> existing_files,
   processed_files |-> w.processed, calls |-> w.calls,
   seen |-> w.seen, logged |-> {}]

\* scan_folder: the returned bool, the table it leaves, and what it did on
\* the way (snapshot, processed set, store calls, extracted metadata, log)
scan_folder_with(tbl, ds, dk, folder_path, faults, ts) ==
  IF ~os_path_exists(ds, dk, folder_path)
    THEN [ret |-> FALSE, tbl |-> tbl, existing_files |-> EmptyMap,
          processed_files |-> {}, calls |-> <<>>, seen |-> EmptyMap,
          logged |-> {}]
  ELSE
    LET start == [tbl |-> tbl, processed |-> {}, calls |-> <<>>,
                  seen |-> EmptyMap]
        finish(existing_files, w) ==
          LET removed_files == removed_files_of(existing_files, w.processed)
              h == handle_removed_files(w.tbl, removed_files)
          IN [ret |-> TRUE,
              tbl |-> IF removed_files # {} THEN h.tbl ELSE w.tbl,
              existing_files |-> existing_files,
              processed_files |-> w.processed,
              calls |-> w.calls,
              seen |-> w.seen,
              logged |-> IF removed_files # {} THEN h.logged ELSE {}]
        walk(existing_files) ==
          The({IF faults.abort = NoAbort THEN finish(existing_files, w)
               ELSE scan_aborted(existing_files, w) :
                 w \in {scan_walk_with(start, existing_files,
                          Upto(os_walk(ds \ faults.unlistable, dk,
                                       folder_path), faults.abort),
                          dk, faults, ts)}})
    IN The({walk(existing_files) :
              existing_files \in {get_existing_files(tbl, folder_path)}})

\* scan_folder when nothing but os.stat fails
scan_folder(tbl, ds, dk, folder_path, unreadable, ts) ==
  scan_folder_with(tbl, ds, dk, folder_path,
                   [NoFaults EXCEPT !.unreadable = unreadable], ts)

----------------------------------------------------------------------------
(* Inputs of the user interface *)

Electrical == <<"E","l","e","c","t","r","i","c","a","l">>

\* the non-empty widget values _update_selected sends to the store
UpdateChoices ==
  { [department |-> Electrical, revision |-> <<"B">>],
    [notes |-> <<"x">>] }

EmptyCriteria == [k \in {} |-> <<>>]

\* the criteria _perform_search sends to the store
SearchChoices ==
  { [department |-> <<"e","l","e","c">>, file_type |-> <<"P","D","F">>] }

----------------------------------------------------------------------------
(* State *)

VARIABLES
  dirs,             \* directories that exist on disk
  disk,             \* os.stat of every file (Absent when it is not there)
  files_metadata,   \* the files_metadata table, in rowid order
  recent_folders,   \* the recent_folders table
  now,              \* CURRENT_TIMESTAMP, in seconds
  pc,               \* "done" when scan_folder has just returned, else "idle"
  ret,              \* the last call of the interface and what it returned
  folder_path,      \* the latest scan: its argument
  existing_files,   \* the latest scan: the snapshot read at its start
  processed_files,  \* the latest scan: the processed set
  pre,              \* the latest scan: the tables when it started
  calls,            \* the latest scan: the store calls it issued
  logged,           \* the latest scan: paths logged as "File no longer exists"
  seen,             \* the latest scan: metadata extracted, per path
  unreadable,       \* the latest scan: paths whose os.stat raised
  clean_runs,       \* consecutive scans of the same root with the same
                    \* unreadable paths and nothing else in between (up to 2)
  budget,           \* steps taken, per kind, against the bounds
  user_input_history, \* the user_input_history table
  callers           \* the store calls in progress on other connections

vars ==
  <<dirs, disk, files_metadata, recent_folders, now, pc, ret, folder_path,
    existing_files, processed_files, pre, calls, logged, seen, unreadable,
    clean_runs, budget, user_input_history, callers>>

scan_vars ==
  <<folder_path, existing_files, processed_files, pre, calls, logged, seen,
    unreadable>>

\* what only the store calls on their own touch
store_vars == <<user_input_history, callers>>

EmptySummary ==
  [total_files |-> 0, type_counts |-> EmptyMap,
   tagged_files |-> 0, untagged_files |-> 0]

\* a call and its outcome: args as passed, fail the point at which the store
\* failed (0: it did not), raised whether an exception reached the caller,
\* value / rows / summary what was returned
Ret(op, ok) ==
  [op |-> op, ok |-> ok, rows |-> <<>>, criteria |-> EmptyCriteria,
   summary |-> EmptySummary, args |-> <<>>, fail |-> 0, raised |-> FALSE,
   value |-> Null]

\* nothing called yet, no scan run yet
Fresh ==
  /\ now = 1
  /\ pc = "idle"
  /\ ret = Ret("none", FALSE)
  /\ folder_path = <<>>
  /\ existing_files = EmptyMap
  /\ processed_files = {}
  /\ pre = [files |-> <<>>, recent |-> {}, history |-> {},
            root_exists |-> FALSE]
  /\ calls = <<>>
  /\ logged = {}
  /\ seen = EmptyMap
  /\ unreadable = {}
  /\ clean_runs = 0
  /\ budget = [ops |-> 0, scans |-> 0]
  /\ user_input_history = {}
  /\ callers = <<>>

Init ==
  /\ dirs \in SUBSET AllDirs
  /\ disk \in [AllFiles -> Stats \cup {Absent}]
  /\ DiskConsistent(dirs, disk)
  /\ \A f \in AllFiles : disk[f] # Absent => disk[f].ctime = disk[f].mtime
  /\ files_metadata = <<>>
  /\ recent_folders = {}
  /\ Fresh

----------------------------------------------------------------------------
(* The environment: files and folders change on disk *)

EnvStep(ds, dk) ==
  /\ budget.ops < MaxOps
  /\ dirs' = ds
  /\ disk' = dk
  /\ budget' = [budget EXCEPT !.ops = @ + 1]
  /\ clean_runs' = 0
  /\ pc' = "idle"
  /\ UNCHANGED <<files_metadata, recent_folders, now, ret, scan_vars, store_vars>>

CreateFile ==
  \E f \in AllFiles : \E t \in 1..MaxTime :
    /\ f.dir \in dirs
    /\ disk[f] = Absent
    /\ EnvStep(dirs, [disk EXCEPT ![f] = [mtime |-> t, ctime |-> t]])

ModifyFile ==
  \E f \in AllFiles : \E t \in 1..MaxTime :
    /\ disk[f] # Absent
    /\ t # disk[f].mtime
    /\ EnvStep(dirs, [disk EXCEPT ![f].mtime = t])

DeleteFile ==
  \E f \in AllFiles :
    /\ disk[f] # Absent
    /\ EnvStep(dirs, [disk EXCEPT ![f] = Absent])

MakeDir ==
  \E d \in AllDirs \ dirs :
    /\ \A e \in AllDirs : d \in SubDirs(e) => e \in dirs
    /\ EnvStep(dirs \cup {d}, disk)

RemoveTree ==
  \E d \in dirs :
    LET gone == {e \in AllDirs : e = d \/ IsPrefix(d \o <<"/">>, e)} IN
    EnvStep(dirs \ gone,
            [f \in AllFiles |-> IF f.dir \in gone THEN Absent ELSE disk[f]])

----------------------------------------------------------------------------
(* The calls of the interface *)

\* folder screen: scan_folder(root); os.stat may raise for any of the files
\* the walk lists
ScanFolder ==
  /\ budget.scans < MaxScans
  /\ \E root \in Folders :
    \E bad \in SUBSET {FilePath(f) : f \in {g \in AllFiles : disk[g] # Absent}} :
      \E r \in {scan_folder(files_metadata, dirs, disk, root, bad, now)} :
      /\ budget' = [budget EXCEPT !.scans = @ + 1]
      /\ files_metadata' = r.tbl
      /\ ret' = Ret("scan_folder", r.ret)
      /\ pc' = "done"
      /\ folder_path' = root
      /\ pre' = [files |-> files_metadata, recent |-> recent_folders,
                 history |-> user_input_history,
                 root_exists |-> root \in dirs]
      /\ existing_files' = r.existing_files
      /\ processed_files' = r.processed_files
      /\ calls' = r.calls
      /\ logged' = r.logged
      /\ seen' = r.seen
      /\ unreadable' = bad
      /\ clean_runs' = IF clean_runs >= 1 /\ root = folder_path
                          /\ bad = unreadable
                         THEN 2 ELSE 1
      /\ UNCHANGED <<dirs, disk, recent_folders, now, store_vars>>

\* metadata screen: update_file_metadata_by_path for a selected file
UpdateByPath ==
  /\ budget.ops < MaxOps
  /\ \E file_path \in AllPaths : \E updates \in UpdateChoices :
    \E r \in {update_file_metadata_by_path(files_metadata, file_path,
                                            updates)} :
    /\ budget' = [budget EXCEPT !.ops = @ + 1]
    /\ files_metadata' = r.tbl
    /\ ret' = Ret("update_file_metadata_by_path", r.ret)
    /\ pc' = "idle"
    /\ clean_runs' = 0
    /\ UNCHANGED <<dirs, disk, recent_folders, now, scan_vars, store_vars>>

\* update_file_metadata with a surrogate key
UpdateById ==
  /\ budget.ops < MaxOps
  /\ \E id \in 1..Cardinality(AllFiles) : \E updates \in UpdateChoices :
    \E r \in {update_file_metadata(files_metadata, PyInt(id), updates)} :
    /\ budget' = [budget EXCEPT !.ops = @ + 1]
    /\ files_metadata' = r.tbl
    /\ ret' = Ret("update_file_metadata", r.ret)
    /\ pc' = "idle"
    /\ clean_runs' = 0
    /\ UNCHANGED <<dirs, disk, recent_folders, now, scan_vars, store_vars>>

\* search screen: search_files
Search ==
  /\ budget.ops < MaxOps
  /\ \E criteria \in SearchChoices :
    /\ budget' = [budget EXCEPT !.ops = @ + 1]
    /\ ret' = [Ret("search_files", TRUE) EXCEPT
                 !.rows = search_files(files_metadata, criteria),
                 !.criteria = criteria]
    /\ pc' = "idle"
    /\ UNCHANGED <<dirs, disk, files_metadata, recent_folders, now,
                   clean_runs, scan_vars, store_vars>>

\* get_scan_summary
Summary ==
  /\ budget.ops < MaxOps
  /\ \E root \in Folders :
    /\ budget' = [budget EXCEPT !.ops = @ + 1]
    /\ ret' = [Ret("get_scan_summary", TRUE) EXCEPT
                 !.summary = get_scan_summary(files_metadata, root),
                 !.args = root]
    /\ pc' = "idle"
    /\ UNCHANGED <<dirs, disk, files_metadata, recent_folders, now,
                   clean_runs, scan_vars, store_vars>>

\* folder screen: add_recent_folder; the clock may have moved on since the
\* last call
AddRecentFolder ==
  /\ budget.ops < MaxOps
  /\ \E path \in Folders : \E ts \in {now, now + 1} :
    \E rf \in add_recent_folder(recent_folders, path, ts) :
      /\ budget' = [budget EXCEPT !.ops = @ + 1]
      /\ now' = ts
      /\ recent_folders' = rf
      /\ ret' = Ret("add_recent_folder", TRUE)
      /\ pc' = "idle"
      /\ UNCHANGED <<dirs, disk, files_metadata, clean_runs, scan_vars, store_vars>>

\* folder screen: remove_recent_folder
RemoveRecentFolder ==
  /\ budget.ops < MaxOps
  /\ \E path \in Folders :
    /\ budget' = [budget EXCEPT !.ops = @ + 1]
    /\ recent_folders' = remove_recent_folder(recent_folders, path)
    /\ ret' = Ret("remove_recent_folder", TRUE)
    /\ pc' = "idle"
    /\ UNCHANGED <<dirs, disk, files_metadata, now, clean_runs, scan_vars, store_vars>>

----------------------------------------------------------------------------

Next ==
  \/ CreateFile
  \/ ModifyFile
  \/ DeleteFile
  \/ MakeDir
  \/ RemoveTree
  \/ ScanFolder
  \/ UpdateByPath
  \/ UpdateById
  \/ Search
  \/ Summary
  \/ AddRecentFolder
  \/ RemoveRecentFolder

Spec == Init /\ [][Next]_vars

----------------------------------------------------------------------------
(* Vocabulary of the properties *)

\* the instant a datetime or its stored text denotes
TimeOf(v) == IF IsDatetime(v) \/ IsIsoText(v) THEN v[2] ELSE NullDay

\* path lies under the folder root
UnderRoot(path, root) == IsPrefix(root \o <<"/">>, path)

RowsWithPath(tbl, path) == {i \in 1..Len(tbl) : tbl[i].file_path = path}

CallsOf(op, path) == {i \in 1..Len(calls) : calls[i] = <<op, path>>}

\* row holds the intrinsic fields of the extracted metadata, as stored
HoldsExtracted(row, metadata) ==
  \A c \in IntrinsicFields : row[c] = Adapt(metadata[c])

ScanReturned == pc = "done" /\ ret.op = "scan_folder"

----------------------------------------------------------------------------
(* Properties of scan_folder *)

\* C1: when a root is scanned twice running with nothing changing on disk (or
\* in the catalog) from the start of the first scan on, the second scan leaves
\* files_metadata exactly as the first left it and issues no add call.
C1_IdempotentRescan ==
  (ScanReturned /\ clean_runs = 2) =>
    /\ files_metadata = pre.files
    /\ \A i \in 1..Len(calls) : calls[i][1] # "add"

C1_Witness ==
  /\ ScanReturned /\ clean_runs = 2 /\ ret.ok
  /\ \E p \in AllPaths : os_stat(disk, p) # Absent /\ UnderRoot(p, folder_path)
                         /\ RowsWithPath(files_metadata, p) # {}

\* C2: for every discovered path of the snapshot, the scan issues an update
\* call if and only if the on-disk last_modified is strictly newer than the
\* stored one, and otherwise issues no write for it.
C2_UpdateThreshold ==
  \A p \in DOMAIN seen :
    p \in DOMAIN existing_files =>
      /\ CallsOf("add", p) = {}
      /\ (CallsOf("update", p) # {})
           <=> (TimeOf(seen[p].last_modified) > TimeOf(existing_files[p]))

\* C3: a tracked file whose on-disk last_modified is strictly newer than the
\* stored one has, once the scan has returned, a row holding the freshly
\* extracted intrinsic fields.
C3_ModifiedFileRefresh ==
  ScanReturned =>
    \A p \in DOMAIN seen : \A i \in RowsWithPath(pre.files, p) :
      TimeOf(seen[p].last_modified) > TimeOf(pre.files[i].last_modified)
        => HoldsExtracted(files_metadata[i], seen[p])

\* C4: a discovered file with no row in the catalog at scan start has, once
\* the scan has returned, exactly one row, holding the extracted intrinsic
\* fields and NULL in every user tag field.
C4_NewFileInsertion ==
  ScanReturned =>
    \A p \in DOMAIN seen :
      RowsWithPath(pre.files, p) = {} =>
        /\ Cardinality(RowsWithPath(files_metadata, p)) = 1
        /\ Cardinality(CallsOf("add", p)) = 1
        /\ \A i \in RowsWithPath(files_metadata, p) :
             /\ HoldsExtracted(files_metadata[i], seen[p])
             /\ \A t \in TagFields : files_metadata[i][t] = Null

C4_Witness ==
  /\ ScanReturned
  /\ \E p \in DOMAIN seen :
       /\ RowsWithPath(pre.files, p) = {}
       /\ RowsWithPath(files_metadata, p) # {}
       /\ pre.files # <<>>

\* a row of the catalog at scan start whose file lies under the root and is
\* not on disk
MissingTracked(i) ==
  /\ UnderRoot(pre.files[i].file_path, folder_path)
  /\ os_stat(disk, pre.files[i].file_path) = Absent

RemovedDetected(i) ==
  /\ ret.ok
  /\ pre.files[i].file_path
       \in removed_files_of(existing_files, processed_files)
  /\ pre.files[i].file_path \in logged
  /\ Len(files_metadata) >= i
  /\ files_metadata[i] = pre.files[i]

\* C5 as claimed: whenever a tracked file under root is absent from disk while
\* scan_folder(root) runs, the scan returns True, the path is in the removed
\* set that is logged, and the row is still in the catalog.
C5_RemovedFileDetection_AsClaimed ==
  ScanReturned =>
    \A i \in 1..Len(pre.files) : MissingTracked(i) => RemovedDetected(i)

\* C5 amended: the same, provided the root itself still exists when the scan
\* starts (a missing root makes the scan return False before anything is read).
C5_RemovedFileDetection ==
  (ScanReturned /\ pre.root_exists) =>
    \A i \in 1..Len(pre.files) : MissingTracked(i) => RemovedDetected(i)

C5_Witness ==
  /\ ScanReturned /\ pre.root_exists
  /\ \E i \in 1..Len(pre.files) : MissingTracked(i) /\ RemovedDetected(i)

\* C6: a scan of a root that does not exist returns False, issues no store
\* call, and leaves files_metadata and recent_folders as they were.
C6_InvalidRoot ==
  (ScanReturned /\ ~pre.root_exists) =>
    /\ ~ret.ok
    /\ calls = <<>>
    /\ files_metadata = pre.files
    /\ recent_folders = pre.recent

C6_Witness ==
  /\ ScanReturned /\ ~pre.root_exists /\ ~ret.ok
  /\ files_metadata # <<>>

\* C7: once a scan has returned, every row the catalog held at scan start
\* still holds the same value in every user tag field (and an update by its
\* file_id with freshly extracted metadata would not change one either).
C7_UserTagsSurvive ==
  ScanReturned =>
    \A i \in 1..Len(pre.files) :
      \E j \in 1..Len(files_metadata) :
        /\ files_metadata[j].file_id = pre.files[i].file_id
        /\ \A t \in TagFields : files_metadata[j][t] = pre.files[i][t]
        /\ \A f \in AllFiles : disk[f] # Absent =>
             \A t \in TagFields :
               update_file_metadata(files_metadata,
                   PyInt(files_metadata[j].file_id),
                   extract_metadata(FilePath(f), disk[f])).tbl[j][t]
                 = pre.files[i][t]

C7_Witness ==
  /\ ScanReturned /\ ret.ok
  /\ \E i \in 1..Len(pre.files) :
       /\ pre.files[i].department # Null
       /\ pre.files[i].file_path \in DOMAIN seen
       /\ TimeOf(seen[pre.files[i].file_path].last_modified)
            > TimeOf(pre.files[i].last_modified)

\* C8: no step of any operation removes a files_metadata row: every file_id
\* present before a step is present after it.
C8_NoAutomaticDeletion ==
  [][\A i \in 1..Len(files_metadata) :
       \E j \in 1..Len(files_metadata') :
         files_metadata'[j].file_id = files_metadata[i].file_id]_vars

C8_Witness ==
  /\ ScanReturned
  /\ logged # {}
  /\ \A p \in logged : RowsWithPath(files_metadata, p) # {}

\* C9: one scan issues at most one add call per path, and the rows it has
\* added have pairwise distinct paths.
C9_AddOncePerPath ==
  /\ \A i, j \in 1..Len(calls) :
       (calls[i][1] = "add" /\ calls[i] = calls[j]) => i = j
  /\ ScanReturned =>
       \A i, j \in (Len(pre.files) + 1)..Len(files_metadata) :
         files_metadata[i].file_path = files_metadata[j].file_path => i = j

C9_Witness ==
  /\ ScanReturned
  /\ Cardinality({i \in 1..Len(calls) : calls[i][1] = "add"}) >= 2

\* C22: once a scan has returned True, every path whose metadata it
\* extracted is in the processed set, whichever branch it took; so a tracked
\* file that is on disk and readable is neither in the removed set nor logged
\* as no longer existing.
C22_ProcessedRegardlessOfBranch ==
  (ScanReturned /\ ret.ok) =>
    /\ DOMAIN seen \subseteq processed_files
    /\ \A p \in DOMAIN existing_files :
         (os_stat(disk, p) # Absent /\ p \notin unreadable
            /\ UnderRoot(p, folder_path)) =>
           /\ p \notin removed_files_of(existing_files, processed_files)
           /\ p \notin logged

\* C28: whatever scans have run, one after the other, over whatever roots,
\* with files changing on disk in between, no two rows of files_metadata
\* share a file_path.
C28_UniquePaths ==
  \A i, j \in 1..Len(files_metadata) :
    files_metadata[i].file_path = files_metadata[j].file_path => i = j

C28_Witness ==
  /\ ScanReturned /\ ret.ok
  /\ budget.scans = 2
  /\ folder_path = DirD
  /\ DOMAIN existing_files = {FilePath(FileB)}
  /\ DOMAIN seen = AllPaths
  /\ Len(files_metadata) = 2

----------------------------------------------------------------------------
(* search_files on its own: catalogs and criteria drawn from bounded sets *)

MaxSearchRows == 2

Civil == <<"C","i","v","i","l">>

\* the path of the n-th row: the two files of the tree, then further files
\* of the sub-directory
SearchPath(n) ==
  IF n = 1 THEN FilePath(FileA)
  ELSE IF n = 2 THEN FilePath(FileB)
  ELSE os_path_join(DirS, [i \in 1..n |-> "c"])

\* a row as a scan followed by edits in the metadata screen leaves it
SearchRow(n, department, file_type, t) ==
  LET base == NewRow(<<>>, extract_metadata(SearchPath(n),
                                            [mtime |-> t, ctime |-> t]), t)
  IN [base EXCEPT !.file_id = n, !.department = department,
                  !.file_type = file_type]

\* department, file_type and last_modified of the rows tried
SearchRowChoices ==
  { <<Electrical, <<"P","D","F">>, 1>>,
    <<Electrical, <<"T","X","T">>, MaxTime>>,
    <<Electrical, <<"P","D","F","-","A">>, MaxTime>>,
    <<Civil, <<"P","D","F">>, MaxTime>>,
    <<Null, <<"P","D","F","-","A">>, 1>> }

RECURSIVE TablesOfLen(_)
TablesOfLen(n) ==
  IF n = 0 THEN {<<>>}
  ELSE {Append(tbl, SearchRow(n, c[1], c[2], c[3])) :
          tbl \in TablesOfLen(n - 1), c \in SearchRowChoices}

SearchTables == UNION {TablesOfLen(n) : n \in 0..MaxSearchRows}

DepartmentCriteria == {<<>>, <<"e","l","e","c">>, <<"E","_","e">>}

FileTypeCriteria == {<<>>, <<"P","D","F">>, <<"p","d">>}

DateCriteria == {<<>>, PLACEHOLDER, DateText(0), DateText(1)}

SearchCriteria ==
  {EmptyCriteria}
  \cup {[created_date |-> m] : m \in DateCriteria}
  \cup {[department |-> d, file_type |-> y] :
          d \in DepartmentCriteria, y \in FileTypeCriteria}
  \cup {[department |-> d, file_type |-> y, last_modified |-> m] :
          d \in DepartmentCriteria, y \in FileTypeCriteria, m \in DateCriteria}

SearchInit ==
  /\ files_metadata \in SearchTables
  /\ recent_folders = {}
  /\ dirs = {}
  /\ disk = [f \in AllFiles |-> Absent]
  /\ Fresh

\* search_files with any of the criteria
SearchAny ==
  \E criteria \in SearchCriteria :
    /\ ret' = [Ret("search_files", TRUE) EXCEPT
                 !.rows = search_files(files_metadata, criteria),
                 !.criteria = criteria]
    /\ UNCHANGED <<dirs, disk, files_metadata, recent_folders, now, pc,
                   clean_runs, budget, scan_vars, store_vars>>

SearchNext == SearchAny

SpecSearch == SearchInit /\ [][SearchNext]_vars

----------------------------------------------------------------------------
(* Properties of search_files *)

HasWildcard(v) == \E i \in 1..Len(v) : v[i] \in {"%", "_"}

\* the criteria that filter: non-empty, and not the date placeholder
Effective(criteria) ==
  {k \in DOMAIN criteria :
     Truthy(criteria[k]) /\ ~(k \in DateFields /\ criteria[k] = PLACEHOLDER)}

\* row satisfies criterion k = v: a date field by calendar day, a text field by
\* case-insensitive substring (by LIKE pattern when v holds % or _)
Satisfies(row, k, v) ==
  IF k \in DateFields
    THEN SqlDate(row[k]) # NullDay /\ SqlDate(row[k]) = SqlDate(v)
    ELSE /\ row[k] # Null
         /\ IF HasWildcard(v)
              THEN Like(Lower(row[k]), Lower(<<"%">> \o v \o <<"%">>))
              ELSE ContainsNoCase(row[k], v)

\* as Satisfies, with file_type compared for equality
SatisfiesExactType(row, k, v) ==
  IF k = "file_type" THEN row[k] = v
  ELSE IF k \in DateFields
    THEN SqlDate(row[k]) # NullDay /\ SqlDate(row[k]) = SqlDate(v)
    ELSE row[k] # Null /\ ContainsNoCase(row[k], v)

ReturnedExactly(hits) ==
  /\ Len(ret.rows) = Cardinality(hits)
  /\ {ret.rows[j] : j \in 1..Len(ret.rows)} = {files_metadata[i] : i \in hits}

WildcardFree(criteria) ==
  \A k \in DOMAIN criteria \ DateFields : ~HasWildcard(criteria[k])

\* C10 as claimed (for values free of % and _): the rows returned are exactly
\* those satisfying every non-empty criterion, department by case-insensitive
\* substring and file_type by equality.
C10_SearchAnd_AsClaimed ==
  (ret.op = "search_files" /\ WildcardFree(ret.criteria)) =>
    ReturnedExactly({i \in 1..Len(files_metadata) :
       \A k \in Effective(ret.criteria) :
         SatisfiesExactType(files_metadata[i], k, ret.criteria[k])})

\* C10 amended: the rows returned are exactly those satisfying every non-empty
\* criterion at once, every text field (file_type too) by case-insensitive
\* substring, or by LIKE pattern when the value holds % or _.
C10_SearchAnd ==
  ret.op = "search_files" =>
    ReturnedExactly({i \in 1..Len(files_metadata) :
       \A k \in Effective(ret.criteria) :
         Satisfies(files_metadata[i], k, ret.criteria[k])})

C10_Witness ==
  /\ ret.op = "search_files"
  /\ DOMAIN ret.criteria = {"department", "file_type"}
  /\ Truthy(ret.criteria.department) /\ Truthy(ret.criteria.file_type)
  /\ Len(ret.rows) = 1
  /\ \E i \in 1..Len(files_metadata) :
       /\ Satisfies(files_metadata[i], "department", ret.criteria.department)
       /\ ~Satisfies(files_metadata[i], "file_type", ret.criteria.file_type)

\* the criteria without key k
Without(criteria, k) == [j \in DOMAIN criteria \ {k} |-> criteria[j]]

\* C11: a criterion with an empty value, or a date criterion holding the
\* placeholder, does not filter: the rows returned are those search_files
\* returns for the criteria without it, and with no effective criterion at all
\* every row of the table is returned.
C11_IgnoredCriteria ==
  ret.op = "search_files" =>
    /\ \A k \in DOMAIN ret.criteria \ Effective(ret.criteria) :
         ret.rows = search_files(files_metadata, Without(ret.criteria, k))
    /\ Effective(ret.criteria) = {} =>
         /\ Len(ret.rows) = Len(files_metadata)
         /\ \A i \in 1..Len(files_metadata) :
              \E j \in 1..Len(ret.rows) : ret.rows[j] = files_metadata[i]

C11_Witness ==
  /\ ret.op = "search_files"
  /\ "last_modified" \in DOMAIN ret.criteria
  /\ ret.criteria.last_modified = PLACEHOLDER
  /\ Effective(ret.criteria) # {}
  /\ ret.rows # <<>>
  /\ Len(ret.rows) < Len(files_metadata)

\* C12: the rows search_files returns are in descending order of
\* last_modified: of two consecutive rows the first is not older.
C12_SearchOrdering ==
  ret.op = "search_files" =>
    \A i \in 1..(Len(ret.rows) - 1) :
      TimeOf(ret.rows[i].last_modified) >= TimeOf(ret.rows[i + 1].last_modified)

C12_Witness ==
  /\ ret.op = "search_files"
  /\ Len(ret.rows) >= 2
  /\ ret.rows[1].file_id > ret.rows[2].file_id
  /\ TimeOf(ret.rows[1].last_modified) > TimeOf(ret.rows[2].last_modified)

----------------------------------------------------------------------------
(* recent_folders on its own: any sequence of its calls, the clock bounded *)

RecentPaths ==
  { <<"p","1">>, <<"p","2">>, <<"p","3">>, <<"p","4">>, <<"p","5">>,
    <<"p","6">> }

\* the limits get_recent_folders is called with (the screens use the default)
LimitChoices == {0, 2, RECENT_LIMIT, RECENT_LIMIT + 1}

RecentInit ==
  /\ files_metadata = <<>>
  /\ recent_folders = {}
  /\ dirs = {}
  /\ disk = [f \in AllFiles |-> Absent]
  /\ Fresh

\* add_recent_folder; several calls may fall into one second of the store's
\* CURRENT_TIMESTAMP
RecentAdd ==
  \E path \in RecentPaths : \E ts \in {now, now + 1} :
    /\ ts <= MaxTime
    /\ \E rf \in add_recent_folder(recent_folders, path, ts) :
         /\ recent_folders' = rf
         /\ now' = ts
         /\ pre' = [pre EXCEPT !.recent = recent_folders]
         /\ ret' = [Ret("add_recent_folder", TRUE) EXCEPT !.args = path]
         /\ UNCHANGED <<dirs, disk, files_metadata, pc, folder_path,
                        existing_files, processed_files, calls, logged, seen,
                        unreadable, clean_runs, budget, store_vars>>

RecentRemove ==
  \E path \in RecentPaths :
    /\ recent_folders' = remove_recent_folder(recent_folders, path)
    /\ pre' = [pre EXCEPT !.recent = recent_folders]
    /\ ret' = [Ret("remove_recent_folder", TRUE) EXCEPT !.args = path]
    /\ UNCHANGED <<dirs, disk, files_metadata, now, pc, folder_path,
                   existing_files, processed_files, calls, logged, seen,
                   unreadable, clean_runs, budget, store_vars>>

RecentGet ==
  \E limit \in LimitChoices :
    \E rows \in get_recent_folders(recent_folders, limit) :
      /\ ret' = [Ret("get_recent_folders", TRUE) EXCEPT
                   !.args = limit, !.rows = rows]
      /\ pre' = [pre EXCEPT !.recent = recent_folders]
      /\ UNCHANGED <<dirs, disk, files_metadata, recent_folders, now, pc,
                     folder_path, existing_files, processed_files, calls,
                     logged, seen, unreadable, clean_runs, budget, store_vars>>

RecentNext ==
  \/ RecentAdd
  \/ RecentRemove
  \/ RecentGet

SpecRecent == RecentInit /\ [][RecentNext]_vars

----------------------------------------------------------------------------
(* Properties of recent_folders *)

PathsOf(rf) == {r.folder_path : r \in rf}

\* C13: after any sequence of add_recent_folder and remove_recent_folder
\* calls, recent_folders holds at most 5 rows (one per path).
C13_RecentCap ==
  /\ Cardinality(recent_folders) <= 5
  /\ Cardinality(PathsOf(recent_folders)) = Cardinality(recent_folders)

C13_Witness ==
  /\ ret.op = "add_recent_folder"
  /\ Cardinality(pre.recent) = 5
  /\ ret.args \notin PathsOf(pre.recent)
  /\ Cardinality(recent_folders) = 5

\* C14: add_recent_folder with a 6th distinct path on a table of 5 leaves
\* exactly 5 rows: the new one and four of the old ones, the evicted old row
\* being one whose last_accessed no other old row undercuts.
C14_RecentEviction ==
  ( /\ ret.op = "add_recent_folder"
    /\ Cardinality(pre.recent) = 5
    /\ ret.args \notin PathsOf(pre.recent) ) =>
      /\ Cardinality(recent_folders) = 5
      /\ ret.args \in PathsOf(recent_folders)
      /\ Cardinality(pre.recent \cap recent_folders) = 4
      /\ \A e \in pre.recent \ recent_folders : \A r \in pre.recent :
           e.last_accessed <= r.last_accessed

\* C19: get_recent_folders(limit) returns at most limit rows of the table,
\* each once, most recently accessed first, and no row left out is more recent
\* than a row returned.
C19_GetRecentFolders ==
  ret.op = "get_recent_folders" =>
    LET rows == ret.rows
        returned == {rows[i] : i \in 1..Len(rows)}
    IN /\ Len(rows) <= ret.args
       /\ Len(rows) = IF Cardinality(recent_folders) < ret.args
                        THEN Cardinality(recent_folders) ELSE ret.args
       /\ returned \subseteq recent_folders
       /\ Cardinality(returned) = Len(rows)
       /\ \A i \in 1..(Len(rows) - 1) :
            rows[i].last_accessed >= rows[i + 1].last_accessed
       /\ \A r \in returned : \A o \in recent_folders \ returned :
            r.last_accessed >= o.last_accessed

C19_Witness ==
  /\ ret.op = "get_recent_folders"
  /\ ret.args = 2
  /\ Len(ret.rows) = 2
  /\ Cardinality(recent_folders) > 2
  /\ ret.rows[1].last_accessed > ret.rows[2].last_accessed
  /\ \E o \in recent_folders : o.last_accessed < ret.rows[1].last_accessed
                                 /\ o # ret.rows[2]

\* C26: no two rows of recent_folders share a folder_path; add_recent_folder
\* with a path the table holds adds no row and leaves that path's row with
\* last_accessed at the current time, which no other row exceeds.
C26_RecentUpsert ==
  /\ \A r, o \in recent_folders : r.folder_path = o.folder_path => r = o
  /\ (ret.op = "add_recent_folder" /\ ret.args \in PathsOf(pre.recent)) =>
       /\ PathsOf(recent_folders) = PathsOf(pre.recent)
       /\ Cardinality(recent_folders) = Cardinality(pre.recent)
       /\ \E r \in recent_folders :
            /\ r.folder_path = ret.args
            /\ r.last_accessed = now
            /\ \A o \in recent_folders : o.last_accessed <= r.last_accessed

C26_Witness ==
  /\ ret.op = "add_recent_folder"
  /\ Cardinality(pre.recent) >= 2
  /\ \E r \in pre.recent :
       /\ r.folder_path = ret.args
       /\ r.last_accessed < now
       /\ \E o \in pre.recent : o.last_accessed > r.last_accessed
  /\ \E r \in recent_folders : r.folder_path = ret.args /\ r.last_accessed = now

\* C27: after add_recent_folder(p) has returned True, p is in recent_folders
\* and is the first entry of whatever get_recent_folders() returns, also when
\* other folders were touched within the same second.
C27_TouchedFolderFirst ==
  (ret.op = "add_recent_folder" /\ ret.ok) =>
    /\ ret.args \in PathsOf(recent_folders)
    /\ \A rows \in get_recent_folders(recent_folders, RECENT_LIMIT) :
         rows # <<>> /\ rows[1].folder_path = ret.args

----------------------------------------------------------------------------
(* The store calls, each on a connection of its own: db_manager.py *)

\* the point at which the store fails during a call of n statements:
\*   0      it does not
\*   1      sqlite3.connect raises
\*   1 + i  the i-th statement raises
\*   n + 2  the commit raises
FailPoints(n) == 0..(n + 2)

\* a connection that keeps what its statements did before the failure
with_connection_NoRollback(db, work, fail) ==
  IF fail = 0
    THEN [db |-> work[Len(work)], failed |-> FALSE, raised |-> FALSE]
    ELSE [db |-> IF fail >= 3 THEN work[fail - 2] ELSE db,
          failed |-> TRUE, raised |-> FALSE]

\* try: with sqlite3.connect(...) as conn: <statements> except sqlite3.Error:
\* work[i] is the database as the connection sees it after statement i; the
\* with block commits on leaving normally and rolls back on an exception, and
\* the except clause keeps the exception from the caller
with_connection(db, work, fail) ==
  IF fail = 0
    THEN [db |-> work[Len(work)], failed |-> FALSE, raised |-> FALSE]
    ELSE [db |-> db, failed |-> TRUE, raised |-> FALSE]

\* a SELECT that records what was asked in user_input_history
sql_select_Recording(db) ==
  [db EXCEPT !.history = @ \cup {[field_name |-> "query", usage_count |-> 1]}]

\* the database after a SELECT statement
sql_select(db) == db

\* what a call leaves and returns
Outcome(c, ok, value, rows) ==
  [db |-> c.db, ok |-> ok, value |-> value, rows |-> rows,
   raised |-> c.raised]

add_file_metadata_call(db, metadata, ts, fail) ==
  { Outcome(c, ~c.failed /\ r.ret # 0,
            IF c.failed \/ r.ret = 0 THEN Null ELSE PyInt(r.ret), <<>>) :
      r \in {add_file_metadata(db.files, metadata, ts)},
      c \in {with_connection(db,
               <<[db EXCEPT !.files =
                    add_file_metadata(db.files, metadata, ts).tbl]>>, fail)} }

update_file_metadata_call(db, file_id, metadata, fail) ==
  { Outcome(c, ~c.failed /\ r.ret, Null, <<>>) :
      r \in {update_file_metadata(db.files, file_id, metadata)},
      c \in {with_connection(db,
               <<[db EXCEPT !.files =
                    update_file_metadata(db.files, file_id, metadata).tbl]>>,
               fail)} }

update_file_metadata_by_path_call(db, file_path, metadata, fail) ==
  { Outcome(c, ~c.failed /\ r.ret, Null, <<>>) :
      r \in {update_file_metadata_by_path(db.files, file_path, metadata)},
      c \in {with_connection(db,
               <<[db EXCEPT !.files =
                    update_file_metadata_by_path(db.files, file_path,
                                                 metadata).tbl]>>, fail)} }

search_files_call(db, criteria, fail) ==
  { Outcome(c, ~c.failed, Null,
            IF c.failed THEN <<>> ELSE search_files(db.files, criteria)) :
      c \in {with_connection(db, <<sql_select(db)>>, fail)} }

\* SELECT * FROM files_metadata WHERE file_id = ? ; fetchone
get_file_metadata(tbl, file_id) ==
  SelectSeq(tbl, LAMBDA row : SqlRowidEquals(row.file_id, file_id))

\* SELECT * FROM files_metadata WHERE file_path = ? ; fetchone
get_file_metadata_by_path(tbl, file_path) ==
  SelectSeq(tbl, LAMBDA row : row.file_path = file_path)

\* dict(row) if row else None
FetchOne(c, found) ==
  IF c.failed \/ found = <<>>
    THEN Outcome(c, FALSE, Null, <<>>)
    ELSE Outcome(c, TRUE, found[1], <<found[1]>>)

get_file_metadata_call(db, file_id, fail) ==
  { FetchOne(c, get_file_metadata(db.files, file_id)) :
      c \in {with_connection(db, <<sql_select(db)>>, fail)} }

get_file_metadata_by_path_call(db, file_path, fail) ==
  { FetchOne(c, get_file_metadata_by_path(db.files, file_path)) :
      c \in {with_connection(db, <<sql_select(db)>>, fail)} }

get_recent_folders_call(db, limit, fail) ==
  { Outcome(c, ~c.failed, Null, IF c.failed THEN <<>> ELSE rows) :
      rows \in get_recent_folders(db.recent, limit),
      c \in {with_connection(db, <<sql_select(db)>>, fail)} }

add_recent_folder_call(db, path, ts, fail) ==
  { Outcome(with_connection(db,
              <<[db EXCEPT !.recent = recent_upsert(db.recent, path, ts)],
                [db EXCEPT !.recent = kept]>>, fail),
            fail = 0, Null, <<>>) :
      kept \in recent_trim(recent_upsert(db.recent, path, ts)) }

remove_recent_folder_call(db, path, fail) ==
  { Outcome(c, ~c.failed, Null, <<>>) :
      c \in {with_connection(db,
               <<[db EXCEPT !.recent = remove_recent_folder(db.recent, path)]>>,
               fail)} }

\* get_scan_summary over what search_files returned (nothing, when it failed)
get_scan_summary_call(db, root, fail) ==
  { [o EXCEPT !.value = get_scan_summary(o.rows, root)] :
      o \in search_files_call(db, [file_path |-> root], fail) }

----------------------------------------------------------------------------
(* One store call, on any of a few databases, failing at any point *)

StoreTables ==
  { <<>>,
    <<SearchRow(1, Null, <<"P","D","F">>, 1)>>,
    <<SearchRow(1, Electrical, <<"P","D","F">>, 1),
      SearchRow(2, Null, <<"T","X","T">>, MaxTime)>> }

\* recent_folders holding the first n paths, the first of them the oldest
RecentOf(n) ==
  {[folder_path |-> <<"p", Digits[i + 1]>>,
    last_accessed |-> IF i = 1 THEN 0 ELSE 1] : i \in 1..n}

StoreRecents == {RecentOf(0), RecentOf(2), RecentOf(RECENT_LIMIT)}

\* metadata handed to add_file_metadata: that of a file, and one lacking the
\* NOT NULL file_name
AddChoices ==
  { extract_metadata(SearchPath(3), [mtime |-> 1, ctime |-> 1]),
    [file_path |-> SearchPath(3)] }

StoreIds == {PyInt(1), PyInt(3)}

StorePaths == {SearchPath(1), SearchPath(3)}

StoreInit ==
  /\ files_metadata \in StoreTables
  /\ dirs = {}
  /\ disk = [f \in AllFiles |-> Absent]
  /\ recent_folders \in StoreRecents
  /\ Fresh

Database == [files |-> files_metadata, recent |-> recent_folders,
             history |-> user_input_history]

\* the call op(args) failing at point fail with outcome o
StoreCall(op, args, fail, o) ==
  /\ pc = "idle"
  /\ pc' = "done"
  /\ files_metadata' = o.db.files
  /\ recent_folders' = o.db.recent
  /\ user_input_history' = o.db.history
  /\ pre' = [pre EXCEPT !.files = files_metadata, !.recent = recent_folders,
                        !.history = user_input_history]
  /\ ret' = [Ret(op, o.ok) EXCEPT !.args = args, !.fail = fail,
                                  !.raised = o.raised, !.value = o.value,
                                  !.rows = o.rows]
  /\ UNCHANGED <<dirs, disk, now, folder_path, existing_files,
                 processed_files, calls, logged, seen, unreadable, clean_runs,
                 budget, callers>>

StoreAdd ==
  \E metadata \in AddChoices : \E fail \in FailPoints(1) :
    \E o \in add_file_metadata_call(Database, metadata, now, fail) :
      StoreCall("add_file_metadata", [metadata |-> metadata], fail, o)

StoreUpdateById ==
  \E id \in StoreIds : \E updates \in UpdateChoices :
    \E fail \in FailPoints(1) :
      \E o \in update_file_metadata_call(Database, id, updates, fail) :
        StoreCall("update_file_metadata",
                  [identity |-> id, metadata |-> updates], fail, o)

StoreUpdateByPath ==
  \E path \in StorePaths : \E updates \in UpdateChoices :
    \E fail \in FailPoints(1) :
      \E o \in update_file_metadata_by_path_call(Database, path, updates,
                                                 fail) :
        StoreCall("update_file_metadata_by_path",
                  [identity |-> path, metadata |-> updates], fail, o)

StoreSearch ==
  \E criteria \in SearchChoices \cup {EmptyCriteria} :
    \E fail \in FailPoints(1) :
      \E o \in search_files_call(Database, criteria, fail) :
        StoreCall("search_files", [criteria |-> criteria], fail, o)

StoreGetById ==
  \E id \in StoreIds : \E fail \in FailPoints(1) :
    \E o \in get_file_metadata_call(Database, id, fail) :
      StoreCall("get_file_metadata", [identity |-> id], fail, o)

StoreGetByPath ==
  \E path \in StorePaths : \E fail \in FailPoints(1) :
    \E o \in get_file_metadata_by_path_call(Database, path, fail) :
      StoreCall("get_file_metadata_by_path", [identity |-> path], fail, o)

StoreSummary ==
  \E root \in Folders : \E fail \in FailPoints(1) :
    \E o \in get_scan_summary_call(Database, root, fail) :
      StoreCall("get_scan_summary", [folder_path |-> root], fail, o)

StoreGetRecent ==
  \E limit \in LimitChoices : \E fail \in FailPoints(1) :
    \E o \in get_recent_folders_call(Database, limit, fail) :
      StoreCall("get_recent_folders", [limit |-> limit], fail, o)

StoreAddRecent ==
  \E path \in {<<"p","1">>, <<"p","6">>} : \E fail \in FailPoints(2) :
    \E o \in add_recent_folder_call(Database, path, now, fail) :
      StoreCall("add_recent_folder", [folder_path |-> path], fail, o)

StoreRemoveRecent ==
  \E path \in {<<"p","1">>, <<"p","6">>} : \E fail \in FailPoints(1) :
    \E o \in remove_recent_folder_call(Database, path, fail) :
      StoreCall("remove_recent_folder", [folder_path |-> path], fail, o)

StoreNext ==
  \/ StoreAdd
  \/ StoreUpdateById
  \/ StoreUpdateByPath
  \/ StoreSearch
  \/ StoreGetById
  \/ StoreGetByPath
  \/ StoreSummary
  \/ StoreGetRecent
  \/ StoreAddRecent
  \/ StoreRemoveRecent

SpecStore == StoreInit /\ [][StoreNext]_vars

----------------------------------------------------------------------------
(* Properties of the store calls *)

UpdateOps == {"update_file_metadata", "update_file_metadata_by_path"}

ReadOps ==
  {"get_scan_summary", "search_files", "get_recent_folders",
   "get_file_metadata", "get_file_metadata_by_path"}

\* the rows of the table before the call that the identity of an update names
Matched ==
  {i \in 1..Len(pre.files) :
     IF ret.op = "update_file_metadata"
       THEN pre.files[i].file_id = ret.args.identity[2]
       ELSE pre.files[i].file_path = ret.args.identity}

TablesUnchanged ==
  /\ files_metadata = pre.files
  /\ recent_folders = pre.recent
  /\ user_input_history = pre.history

\* C15: an update by file_id or by path on a working store returns True if
\* and only if at least one row matched the identity; when none matched it
\* returns False and the table is unchanged.
C15_UpdateReturn ==
  (ret.op \in UpdateOps /\ ret.fail = 0) =>
    /\ ret.ok <=> Matched # {}
    /\ Matched = {} => files_metadata = pre.files

\* C16: an update by file_id or by path changes only the supplied fields of
\* the rows matching the identity: those rows keep every other field, and
\* every other row is as it was.
C16_PartialUpdateFrame ==
  ret.op \in UpdateOps =>
    /\ Len(files_metadata) = Len(pre.files)
    /\ \A i \in 1..Len(pre.files) :
         IF i \in Matched
           THEN \A c \in Columns \ DOMAIN ret.args.metadata :
                  files_metadata[i][c] = pre.files[i][c]
           ELSE files_metadata[i] = pre.files[i]

C16_Witness ==
  /\ ret.op \in UpdateOps /\ ret.ok /\ ret.fail = 0
  /\ "department" \notin DOMAIN ret.args.metadata
  /\ \E i \in Matched : /\ pre.files[i].department # Null
                         /\ files_metadata[i] # pre.files[i]
  /\ \E i \in 1..Len(pre.files) : i \notin Matched

\* C17: when the store fails during a call, no exception reaches the caller,
\* the call returns its failure value (None for add_file_metadata and the get
\* calls, False for the updates and the recent-folder writes, an empty list
\* for search_files and get_recent_folders), and the tables are as before.
C17_StoreFailure ==
  ret.fail # 0 =>
    /\ ~ret.raised
    /\ TablesUnchanged
    /\ ret.op \in {"add_file_metadata", "get_file_metadata",
                    "get_file_metadata_by_path"} => ret.value = Null
    /\ ret.op \in UpdateOps \cup {"add_recent_folder", "remove_recent_folder"}
         => ~ret.ok
    /\ ret.op \in {"search_files", "get_recent_folders"} => ret.rows = <<>>

C17_Witness ==
  /\ ret.op = "add_recent_folder"
  /\ ret.fail = 3
  /\ Cardinality(pre.recent) = RECENT_LIMIT
  /\ ret.args.folder_path \notin PathsOf(pre.recent)
  /\ ~ret.ok

\* C20: get_scan_summary, search_files, get_recent_folders, get_file_metadata
\* and get_file_metadata_by_path leave files_metadata, recent_folders and
\* user_input_history as they were, also when the store fails.
C20_ReadsHaveNoEffect ==
  ret.op \in ReadOps => TablesUnchanged

C20_Witness ==
  /\ ret.op = "get_file_metadata_by_path"
  /\ ret.fail # 0
  /\ pre.files # <<>>
  /\ pre.recent # {}

----------------------------------------------------------------------------
(* Several callers in update_file_metadata_by_path at once, each on a
   connection of its own *)

MaxCallers == 2

\* what the callers ask for: updates that share fields with different values,
\* and updates of different fields
ConcurrentChoices ==
  UpdateChoices \cup {[department |-> Civil, notes |-> <<"y">>]}

ConcurrentInit ==
  /\ files_metadata \in StoreTables
  /\ dirs = {}
  /\ disk = [f \in AllFiles |-> Absent]
  /\ recent_folders = {}
  /\ Fresh

\* a write statement with no regard for the lock another connection holds
CanWrite_Always(cs, c) == TRUE

\* SQLite grants the write lock to one connection at a time: a connection
\* holds it from its UPDATE until its commit or rollback
CanWrite(cs, c) ==
  \A k \in DOMAIN cs \ {c} : cs[k].pc # "executed"

ConcurrentFrame ==
  UNCHANGED <<dirs, disk, recent_folders, now, pc, ret, folder_path,
              existing_files, processed_files, calls, logged, seen,
              unreadable, clean_runs, budget, user_input_history>>

\* a caller enters update_file_metadata_by_path(file_path, metadata) and
\* sqlite3.connect returns
ConnConnect ==
  /\ Len(callers) < MaxCallers
  /\ \E file_path \in StorePaths : \E metadata \in ConcurrentChoices :
       callers' = Append(callers,
                         [pc |-> "connected", file_path |-> file_path,
                          metadata |-> metadata, work |-> <<>>,
                          rowcount |-> FALSE, ok |-> FALSE, failed |-> FALSE,
                          overlapped |-> FALSE])
  /\ pre' = IF callers = <<>> THEN [pre EXCEPT !.files = files_metadata]
            ELSE pre
  /\ UNCHANGED files_metadata
  /\ ConcurrentFrame

\* cursor.execute(sql, values): the UPDATE runs on the committed table, in the
\* connection's own transaction
ConnExecute(c) ==
  /\ callers[c].pc = "connected"
  /\ CanWrite(callers, c)
  /\ \E r \in {update_file_metadata_by_path(files_metadata,
                                            callers[c].file_path,
                                            callers[c].metadata)} :
       callers' = [callers EXCEPT
                     ![c].pc = "executed",
                     ![c].work = r.tbl,
                     ![c].rowcount = r.ret,
                     ![c].overlapped =
                        \E k \in DOMAIN callers \ {c} :
                          callers[k].pc = "connected"]
  /\ UNCHANGED <<files_metadata, pre>>
  /\ ConcurrentFrame

\* cursor.execute(sql, values) while another connection holds the write lock,
\* for longer than the connection waits: sqlite3.OperationalError, False
ConnBusy(c) ==
  /\ callers[c].pc = "connected"
  /\ ~CanWrite(callers, c)
  /\ callers' = [callers EXCEPT ![c].pc = "done", ![c].failed = TRUE,
                                ![c].ok = FALSE]
  /\ UNCHANGED <<files_metadata, pre>>
  /\ ConcurrentFrame

\* conn.commit(), then return cursor.rowcount > 0
ConnCommit(c) ==
  /\ callers[c].pc = "executed"
  /\ files_metadata' = callers[c].work
  /\ callers' = [callers EXCEPT ![c].pc = "done",
                                ![c].ok = callers[c].rowcount]
  /\ UNCHANGED pre
  /\ ConcurrentFrame

\* conn.commit() raises: the with block rolls back, False
ConnCommitFails(c) ==
  /\ callers[c].pc = "executed"
  /\ callers' = [callers EXCEPT ![c].pc = "done", ![c].failed = TRUE,
                                ![c].ok = FALSE]
  /\ UNCHANGED <<files_metadata, pre>>
  /\ ConcurrentFrame

ConcurrentNext ==
  \/ ConnConnect
  \/ \E c \in DOMAIN callers : ConnExecute(c)
  \/ \E c \in DOMAIN callers : ConnBusy(c)
  \/ \E c \in DOMAIN callers : ConnCommit(c)
  \/ \E c \in DOMAIN callers : ConnCommitFails(c)

SpecConcurrent == ConcurrentInit /\ [][ConcurrentNext]_vars

----------------------------------------------------------------------------
(* Properties of interleaved updates *)

\* the callers whose update has been committed
Committed ==
  {c \in DOMAIN callers : callers[c].pc = "done" /\ ~callers[c].failed}

\* the tables that applying the updates of the callers in S to tbl, one after
\* the other, can give: one for each order
RECURSIVE SequentialResults(_, _)
SequentialResults(tbl, S) ==
  IF S = {} THEN {tbl}
  ELSE UNION { SequentialResults(
                 update_file_metadata_by_path(tbl, callers[c].file_path,
                                              callers[c].metadata).tbl,
                 S \ {c}) : c \in S }

\* C18: however the update_file_metadata_by_path calls of several callers
\* interleave, files_metadata is what applying the committed updates one after
\* the other, in some order, gives (so on a field two of them supply the later
\* one wins, and a field only one supplies keeps that value); a call returns
\* True exactly when its update was committed and matched a row; a call that
\* failed applied nothing.
C18_InterleavedUpdates ==
  /\ callers # <<>> =>
       files_metadata \in SequentialResults(pre.files, Committed)
  /\ \A c \in DOMAIN callers :
       callers[c].pc = "done" =>
         (callers[c].ok <=> c \in Committed /\ callers[c].rowcount)

\* two callers, both inside the call before either wrote, updated the same
\* row, one supplying department and revision, the other department and notes
C18_Witness ==
  /\ Len(callers) >= 2
  /\ callers[1].pc = "done" /\ callers[2].pc = "done"
  /\ callers[1].ok /\ callers[2].ok
  /\ callers[1].file_path = callers[2].file_path
  /\ callers[1].overlapped \/ callers[2].overlapped
  /\ callers[1].metadata = [department |-> Electrical, revision |-> <<"B">>]
  /\ callers[2].metadata = [department |-> Civil, notes |-> <<"y">>]
  /\ \E i \in 1..Len(files_metadata) :
       /\ files_metadata[i].file_path = callers[1].file_path
       /\ files_metadata[i].revision = Adapt(<<"B">>)
       /\ files_metadata[i].notes = Adapt(<<"y">>)
       /\ files_metadata[i].department \in {Adapt(Electrical), Adapt(Civil)}

----------------------------------------------------------------------------
(* Scans of a catalog that earlier scans, of these and of other folders, have
   filled; during a scan something may fail *)

\* files of other folders that earlier scans have recorded: one in a folder
\* next to d whose name begins with d, one in a tree that holds a d/s deeper
SiblingPath == <<"d","2","/","c">>
ElsewherePath == <<"x","/","d","/","s","/","e">>

TrackedPaths ==
  <<FilePath(FileA), FilePath(FileB), SiblingPath, ElsewherePath>>

\* the catalog after scans have added the given paths, in that order
RECURSIVE CatalogOf(_)
CatalogOf(paths) ==
  IF paths = <<>> THEN <<>>
  ELSE add_file_metadata(
         CatalogOf(SubSeq(paths, 1, Len(paths) - 1)),
         extract_metadata(paths[Len(paths)], [mtime |-> 1, ctime |-> 1]),
         1).tbl

FaultTables ==
  { CatalogOf([i \in 1..Len(SetToSeqBy(S)) |-> TrackedPaths[SetToSeqBy(S)[i]]]) :
      S \in SUBSET (1..Len(TrackedPaths)) }

\* one thing going wrong during a scan, or nothing
FaultChoices ==
  {NoFaults}
  \cup {[NoFaults EXCEPT !.unreadable = {p}] : p \in AllPaths}
  \cup {[NoFaults EXCEPT !.failing = {p}] : p \in AllPaths}
  \cup {[NoFaults EXCEPT !.unlistable = {d}] : d \in AllDirs}
  \cup {[NoFaults EXCEPT !.abort = k] : k \in 0..Cardinality(AllFiles)}

FaultsInit ==
  /\ dirs \in SUBSET AllDirs
  /\ disk \in [AllFiles -> Stats \cup {Absent}]
  /\ DiskConsistent(dirs, disk)
  /\ \A f \in AllFiles : disk[f] # Absent => disk[f].ctime = disk[f].mtime
  /\ files_metadata \in FaultTables
  /\ recent_folders = {}
  /\ Fresh

\* scan_folder(root) during which faults happen; one scan is followed, the
\* earlier ones being those that filled the catalog
ScanFaulty ==
  /\ budget.scans = 0
  /\ \E root \in Folders : \E faults \in FaultChoices :
      \E r \in {scan_folder_with(files_metadata, dirs, disk, root, faults,
                                 now)} :
      /\ budget' = [budget EXCEPT !.scans = @ + 1]
      /\ files_metadata' = r.tbl
      /\ ret' = [Ret("scan_folder", r.ret) EXCEPT !.args = faults]
      /\ pc' = "done"
      /\ folder_path' = root
      /\ pre' = [files |-> files_metadata, recent |-> recent_folders,
                 history |-> user_input_history,
                 root_exists |-> root \in dirs]
      /\ existing_files' = r.existing_files
      /\ processed_files' = r.processed_files
      /\ calls' = r.calls
      /\ logged' = r.logged
      /\ seen' = r.seen
      /\ unreadable' = faults.unreadable
      /\ clean_runs' = 0
      /\ UNCHANGED <<dirs, disk, recent_folders, now, store_vars>>

FaultsNext ==
  \/ ScanFaulty
  \/ Summary

SpecFaults == FaultsInit /\ [][FaultsNext]_vars

----------------------------------------------------------------------------
(* Properties of scans of a filled catalog, and of scans that meet faults *)

PathsUnder(tbl, root) ==
  {tbl[i].file_path : i \in {j \in 1..Len(tbl) :
                               UnderRoot(tbl[j].file_path, root)}}

\* C21: the snapshot a scan of an existing root loads holds exactly the paths
\* of the catalog rows under the root, and the removed set that is logged
\* holds no path that is not under the root.
C21_SnapshotScope ==
  (ScanReturned /\ pre.root_exists) =>
    /\ DOMAIN existing_files = PathsUnder(pre.files, folder_path)
    /\ \A p \in removed_files_of(existing_files, processed_files) \cup logged :
         UnderRoot(p, folder_path)

\* the file of a path of the tree
FileOf(p) == CHOOSE f \in AllFiles : FilePath(f) = p

\* the scan met one fault, at the one file p that it had listed
OneFileFailed(p) ==
  /\ ScanReturned /\ pre.root_exists
  /\ ret.args.abort = NoAbort /\ ret.args.unlistable = {}
  /\ ret.args.unreadable \cup ret.args.failing = {p}
  /\ os_stat(disk, p) # Absent
  /\ UnderRoot(p, folder_path)

\* C23: when extraction or the store write fails for one listed file, the
\* scan returns True and leaves the catalog, the processed set, the store
\* calls and the log, the failing file apart, as a scan of the same tree
\* without that file would.
C23_PerFileContainment ==
  \A p \in AllPaths :
    OneFileFailed(p) =>
      \A q \in {scan_folder(pre.files, dirs,
                            [disk EXCEPT ![FileOf(p)] = Absent],
                            folder_path, {}, now)} :
        /\ ret.ok /\ q.ret
        /\ files_metadata = q.tbl
        /\ processed_files \ {p} = q.processed_files
        /\ SelectSeq(calls, LAMBDA c : c[2] # p) = q.calls
        /\ logged = q.logged

C23_Witness ==
  /\ OneFileFailed(FilePath(FileA))
  /\ folder_path = DirD
  /\ ret.ok
  /\ CallsOf("add", FilePath(FileB)) # {}
  /\ RowsWithPath(files_metadata, FilePath(FileB)) # {}
  /\ RowsWithPath(files_metadata, FilePath(FileA)) = {}

\* C24: when an exception escapes the walk, the scan returns False and the
\* catalog holds every row it held at scan start, unchanged, followed by a
\* row for each add call issued before the exception.
C24_NoRollbackOnAbort ==
  (ScanReturned /\ pre.root_exists /\ ret.args.abort # NoAbort) =>
    /\ ~ret.ok
    /\ Len(files_metadata)
         = Len(pre.files)
           + Cardinality({i \in 1..Len(calls) : calls[i][1] = "add"})
    /\ SubSeq(files_metadata, 1, Len(pre.files)) = pre.files
    /\ \A i \in 1..Len(calls) :
         calls[i][1] = "add" =>
           \E j \in RowsWithPath(files_metadata, calls[i][2]) :
             HoldsExtracted(files_metadata[j], seen[calls[i][2]])

C24_Witness ==
  /\ ScanReturned /\ pre.root_exists
  /\ ret.args.abort = 1
  /\ ~ret.ok
  /\ pre.files # <<>>
  /\ Len(files_metadata) = Len(pre.files) + 1
  /\ \E f \in AllFiles :
       /\ disk[f] # Absent /\ UnderRoot(FilePath(f), folder_path)
       /\ FilePath(f) \notin DOMAIN seen

\* C25: get_scan_summary(root) counts the catalog rows whose file_path is
\* under root: total_files is their number, type_counts their number per
\* file_type (summing to total_files), tagged_files the number of them with
\* department and revision both non-empty, untagged_files the rest.
C25_ScanSummaryCounts ==
  ret.op = "get_scan_summary" =>
    LET U == {i \in 1..Len(files_metadata) :
                UnderRoot(files_metadata[i].file_path, ret.args)}
        T == {i \in U : Truthy(files_metadata[i].department)
                        /\ Truthy(files_metadata[i].revision)}
        types == {files_metadata[i].file_type : i \in U}
    IN /\ ret.summary.total_files = Cardinality(U)
       /\ DOMAIN ret.summary.type_counts = types
       /\ \A t \in types :
            ret.summary.type_counts[t]
              = Cardinality({i \in U : files_metadata[i].file_type = t})
       /\ ret.summary.tagged_files = Cardinality(T)
       /\ ret.summary.untagged_files = Cardinality(U) - Cardinality(T)

\* C30: when a scan returns True and neither an extraction nor a store call
\* failed during it, every file on disk under the root has a row.
C30_ScanCompleteness ==
  (ScanReturned /\ ret.ok /\ ret.args.unreadable = {}
     /\ ret.args.failing = {}) =>
    \A f \in AllFiles :
      (disk[f] # Absent /\ UnderRoot(FilePath(f), folder_path)) =>
        RowsWithPath(files_metadata, FilePath(f)) # {}

----------------------------------------------------------------------------
(* Several scan_folder runs at once, interleaved between their store calls *)

MaxScanners == 2

InterleavedInit ==
  /\ dirs \in SUBSET AllDirs
  /\ disk \in [AllFiles -> Stats \cup {Absent}]
  /\ DiskConsistent(dirs, disk)
  /\ \A f \in AllFiles : disk[f] # Absent => disk[f].ctime = disk[f].mtime
  /\ files_metadata = <<>>
  /\ recent_folders = {}
  /\ Fresh

InterleavedFrame ==
  UNCHANGED <<dirs, disk, recent_folders, now, pc, ret, folder_path,
              existing_files, processed_files, pre, calls, logged, seen,
              unreadable, clean_runs, budget, user_input_history>>

\* a run starts: the root is validated, the snapshot is read, once, and the
\* walk is set up
ScanBegin ==
  /\ Len(callers) < MaxScanners
  /\ \E root \in Folders :
       callers' =
         Append(callers,
           IF ~os_path_exists(dirs, disk, root)
             THEN [pc |-> "done", ok |-> FALSE, folder_path |-> root,
                   existing_files |-> EmptyMap, todo |-> <<>>,
                   processed_files |-> {}]
             ELSE [pc |-> "walking", ok |-> FALSE, folder_path |-> root,
                   existing_files |-> get_existing_files(files_metadata, root),
                   todo |-> os_walk(dirs, disk, root),
                   processed_files |-> {}])
  /\ UNCHANGED files_metadata
  /\ InterleavedFrame

\* a run handles the next file of its walk: at most one store call
ScanStep(c) ==
  /\ callers[c].pc = "walking"
  /\ callers[c].todo # <<>>
  /\ \E r \in {scan_one(files_metadata, callers[c].existing_files,
                        Head(callers[c].todo),
                        os_stat(disk, Head(callers[c].todo)), now)} :
       /\ files_metadata' = r.tbl
       /\ callers' = [callers EXCEPT
            ![c].todo = Tail(@),
            ![c].processed_files =
               IF r.processed THEN @ \cup {Head(callers[c].todo)} ELSE @]
  /\ InterleavedFrame

\* the walk of a run is over: the removed files are logged, True is returned
ScanEnd(c) ==
  /\ callers[c].pc = "walking"
  /\ callers[c].todo = <<>>
  /\ \E h \in {handle_removed_files(files_metadata,
                 removed_files_of(callers[c].existing_files,
                                  callers[c].processed_files))} :
       files_metadata' = h.tbl
  /\ callers' = [callers EXCEPT ![c].pc = "done", ![c].ok = TRUE]
  /\ InterleavedFrame

InterleavedNext ==
  \/ ScanBegin
  \/ \E c \in DOMAIN callers : ScanStep(c)
  \/ \E c \in DOMAIN callers : ScanEnd(c)

SpecInterleaved == InterleavedInit /\ [][InterleavedNext]_vars

\* C29: however the runs interleave, files_metadata holds as many distinct
\* paths as rows.
C29_UniquePathsInterleaved ==
  Cardinality({files_metadata[i].file_path : i \in 1..Len(files_metadata)})
    = Len(files_metadata)

====
